---- MODULE Spec2Model ----
(***************************************************************************)
(* The One and Only Monitor (TOOM): the watchlist store of database.py,   *)
(* the seeding of seed_data.py and the request handlers of app.py.        *)
(*                                                                         *)
(* Strings that the code converts (tab names, ticker symbols) are          *)
(* sequences of one-character strings, so that str.upper() and            *)
(* str.strip() are computed; strings that the code only stores (the       *)
(* display name of a watchlist entry) are plain strings.                  *)
(*                                                                         *)
(* Every handler of app.py is an `async def` that never awaits, and        *)
(* run.py starts one uvicorn process: a handler runs on the event loop     *)
(* from its first statement to its return before the next request is      *)
(* taken up.  One handler is therefore one action; requests issued at     *)
(* the same time are handled one after the other, in either order.        *)
(***************************************************************************)
EXTENDS Integers, Sequences, FiniteSets, TLC

\* ---------------------------------------------------------------- bounds
\* Number of operations run against the store (init_db and handlers).
MaxCalls == 3

\* CURRENT_TIMESTAMP has a resolution of one second; seconds 0..MaxClock.
MaxClock == 1

\* The tickers of one get_bulk_quotes call.
MaxTickers == 3

\* The daily bars of one history.
MaxBars == 3

\* ---------------------------------------------------------------- strings
LowerCase ==
   << "a", "b", "c", "d", "e", "f", "g", "h", "i", "j", "k", "l", "m",
      "n", "o", "p", "q", "r", "s", "t", "u", "v", "w", "x", "y", "z" >>

UpperCase ==
   << "A", "B", "C", "D", "E", "F", "G", "H", "I", "J", "K", "L", "M",
      "N", "O", "P", "Q", "R", "S", "T", "U", "V", "W", "X", "Y", "Z" >>

\* The characters str.strip() removes.
WhiteSpace == {" ", "\t", "\n", "\r"}

UpperChar(c) ==
   IF \E i \in 1..Len(LowerCase) : LowerCase[i] = c
   THEN UpperCase[CHOOSE i \in 1..Len(LowerCase) : LowerCase[i] = c]
   ELSE c

\* str.upper()
upper(s) == [i \in 1..Len(s) |-> UpperChar(s[i])]

RECURSIVE lstrip(_)
lstrip(s) ==
   IF s # <<>> /\ Head(s) \in WhiteSpace THEN lstrip(Tail(s)) ELSE s

RECURSIVE rstrip(_)
rstrip(s) ==
   IF s # <<>> /\ s[Len(s)] \in WhiteSpace
   THEN rstrip(SubSeq(s, 1, Len(s) - 1))
   ELSE s

\* str.strip()
strip(s) == rstrip(lstrip(s))

\* ---------------------------------------------------------------- seed data
DEFAULT_TABS ==
   << [name |-> <<"M", "a", "i", "n">>, sort_order |-> 0],
      [name |-> <<"M", "A", "G", "7">>, sort_order |-> 1],
      [name |-> <<"A", "A">>, sort_order |-> 2],
      [name |-> <<"U", "S", " ", "S", "e", "c", "t", "o", "r", "s">>, sort_order |-> 3] >>

DEFAULT_WATCHLIST ==
   << [tab |-> <<"M", "a", "i", "n">>,
       tickers |->
         << <<<<"A", "E", "M">>, "Agnico Eagle Mines">>,
            <<<<"T", "L", "T">>, "20+ Year Treasury ETF">>,
            <<<<"V", "T", "I">>, "Total Stock Market ETF">>,
            <<<<"F", "S", "A", "G", "X">>, "Fidelity Gold Fund">> >>],
      [tab |-> <<"M", "A", "G", "7">>,
       tickers |->
         << <<<<"A", "A", "P", "L">>, "Apple Inc.">>,
            <<<<"A", "M", "Z", "N">>, "Amazon.com Inc.">>,
            <<<<"G", "O", "O", "G">>, "Alphabet Inc.">>,
            <<<<"M", "E", "T", "A">>, "Meta Platforms Inc.">>,
            <<<<"T", "S", "L", "A">>, "Tesla Inc.">>,
            <<<<"M", "S", "F", "T">>, "Microsoft Corporation">>,
            <<<<"N", "V", "D", "A">>, "NVIDIA Corporation">>,
            <<<<"M", "A", "G", "S">>, "Roundhill Magnificent Seven ETF">> >>],
      [tab |-> <<"A", "A">>,
       tickers |->
         << <<<<"A", "C", "W", "I">>, "iShares MSCI ACWI ETF">>,
            <<<<"E", "F", "A">>, "iShares MSCI EAFE ETF">>,
            <<<<"E", "E", "M">>, "iShares MSCI Emerging Markets ETF">>,
            <<<<"B", "C", "O", "M", ".", "X", "A">>, "Bloomberg Commodity Index">>,
            <<<<"G", "L", "D">>, "SPDR Gold Shares">>,
            <<<<"S", "L", "V">>, "iShares Silver Trust">>,
            <<<<"S", "P", "Y">>, "SPDR S&P 500 ETF">>,
            <<<<"I", "W", "M">>, "iShares Russell 2000 ETF">> >>],
      [tab |-> <<"U", "S", " ", "S", "e", "c", "t", "o", "r", "s">>,
       tickers |->
         << <<<<"X", "L", "K">>, "Technology">>,
            <<<<"X", "L", "F">>, "Financials">>,
            <<<<"X", "L", "V">>, "Health Care">>,
            <<<<"X", "L", "Y">>, "Consumer Discretionary">>,
            <<<<"X", "L", "C">>, "Communication Services">>,
            <<<<"X", "L", "I">>, "Industrials">>,
            <<<<"X", "L", "P">>, "Consumer Staples">>,
            <<<<"X", "L", "E">>, "Energy">>,
            <<<<"X", "L", "U">>, "Utilities">>,
            <<<<"X", "L", "R", "E">>, "Real Estate">>,
            <<<<"X", "L", "B">>, "Materials">> >>] >>

\* ---------------------------------------------------------------- inputs
\* Tab names sent in a TabBody: one that needs trimming, one of blanks only.
NameInputs == { <<" ", "A">>, <<" ">> }

\* Ticker symbols sent in the path of a watchlist request.
TickerInputs ==
   { <<"a", "a", "p", "l">>, <<"A", "A", "P", "L">>, <<" ", "t", "l", "t", " ">> }

\* The optional display name of api_add_to_watchlist (default "").
EntryNameInputs == { "" }

\* Ticker lists sent in a ReorderBody: two symbols of MAG7 in reverse
\* order, a list with a symbol no tab holds, a list that repeats a symbol.
ReorderInputs ==
   { << <<"t", "s", "l", "a">>, <<"a", "a", "p", "l">> >>,
     << <<" ", "m", "s", "f", "t">>, <<"z", "z">>, <<"A", "A", "P", "L">> >>,
     << <<"a", "a", "p", "l">>, <<"t", "s", "l", "a">>, <<"A", "A", "P", "L">> >> }



\* ---------------------------------------------------------------- state
\* A row of tabs is [id, name, sort_order]; a row of watchlist is
\* [id, tab_id, ticker, name, sort_order, added_at].  The column
\* tabs.created_at is filled by its DEFAULT and read by no statement of
\* the program; it is left out.
VARIABLES
   tabs,           \* rows of table tabs
   watchlist,      \* rows of table watchlist
   tabs_seq,       \* sqlite_sequence of tabs (AUTOINCREMENT)
   watchlist_seq,  \* sqlite_sequence of watchlist (AUTOINCREMENT)
   now,            \* CURRENT_TIMESTAMP, in seconds
   up,             \* the server process is running
   last,           \* the last store operation run and what it returned
   resp,           \* HTTP status of the last response (0: none)
   calls,          \* number of store operations run
   conns,          \* the connection of each request being handled
   pool,           \* the thread pool of the get_bulk_quotes call under way
   quote           \* the get_quote call under way: provider data, result

vars == << tabs, watchlist, tabs_seq, watchlist_seq, now, up, last, resp, calls,
           conns, pool, quote >>

store == << tabs, watchlist, tabs_seq, watchlist_seq >>

\* No request is being handled, no quote is being fetched.
NoConns == {}
NoPool ==
   [state |-> "idle", tickers |-> <<>>, outcome |-> <<>>, max_workers |-> 0,
    submitted |-> 0, queue |-> <<>>, threads |-> 0, running |-> {},
    done |-> {}, collected |-> {}, tries |-> <<>>, results |-> <<>>]
NoQuote == [state |-> "idle"]

Max(S) == CHOOSE m \in S : \A x \in S : x <= m

Call(op, tab_id, arg, ret, out) ==
   [op |-> op, tab_id |-> tab_id, arg |-> arg, ret |-> ret, out |-> out]

\* ---------------------------------------------------------------- init_db
\* INSERT INTO tabs (name, sort_order), one row per DEFAULT_TABS element.
seed_tabs(seq) ==
   { [id |-> seq + i,
      name |-> DEFAULT_TABS[i].name,
      sort_order |-> DEFAULT_TABS[i].sort_order] : i \in 1..Len(DEFAULT_TABS) }

\* tab_map.get(tab_name): the id of the tab of that name, 0 when there is none.
tab_map(ts, name) ==
   IF \E t \in ts : t.name = name
   THEN (CHOOSE t \in ts : t.name = name).id
   ELSE 0

\* unique_violation with a fault: the table has no UNIQUE(tab_id, ticker).
no_unique_index(wl, tab_id, ticker) == FALSE

\* UNIQUE(tab_id, ticker)
unique_violation(wl, tab_id, ticker) ==
   \E w \in wl : w.tab_id = tab_id /\ w.ticker = ticker

\* INSERT OR IGNORE of the tickers of one tab, in order, at second t.
\* acc = [rows, seq]: the table and its sqlite_sequence.
RECURSIVE seed_tickers(_, _, _, _, _)
seed_tickers(acc, tab_id, tickers, order, t) ==
   IF order >= Len(tickers) THEN acc
   ELSE LET ticker == tickers[order + 1][1]
            name   == tickers[order + 1][2]
            row    == [id |-> acc.seq + 1, tab_id |-> tab_id, ticker |-> ticker,
                       name |-> name, sort_order |-> order, added_at |-> t]
            next   == IF unique_violation(acc.rows, tab_id, ticker) THEN acc
                      ELSE [rows |-> acc.rows \cup {row}, seq |-> acc.seq + 1]
        IN seed_tickers(next, tab_id, tickers, order + 1, t)

RECURSIVE seed_watchlist(_, _, _, _)
seed_watchlist(acc, ts, k, t) ==
   IF k > Len(DEFAULT_WATCHLIST) THEN acc
   ELSE LET tab_id == tab_map(ts, DEFAULT_WATCHLIST[k].tab)
            next   == IF tab_id = 0 THEN acc
                      ELSE seed_tickers(acc, tab_id, DEFAULT_WATCHLIST[k].tickers, 0, t)
        IN seed_watchlist(next, ts, k + 1, t)

\* seed_needed with a fault: init_db seeds at every startup.
seed_always(tab_count) == TRUE

\* The seeding condition: SELECT COUNT(*) FROM tabs is 0.
seed_needed(tab_count) == tab_count = 0

\* init_db on the store db = [tabs, watchlist, tabs_seq, watchlist_seq] at
\* second t.  CREATE TABLE IF NOT EXISTS leaves existing tables alone, and
\* the tables this code creates have the sort_order column, so the
\* migration branch (database.py 49-64) is not taken.
init_db(db, t) ==
   IF seed_needed(Cardinality(db.tabs))
   THEN LET ts     == db.tabs \cup seed_tabs(db.tabs_seq)
            seeded == seed_watchlist([rows |-> db.watchlist, seq |-> db.watchlist_seq],
                                     ts, 1, t)
        IN [tabs |-> ts, watchlist |-> seeded.rows,
            tabs_seq |-> db.tabs_seq + Len(DEFAULT_TABS),
            watchlist_seq |-> seeded.seq]
   ELSE db

\* Tab ids a client names in a request: the ids of the default tabs and
\* the id of the first tab a user creates.
TabIdInputs == 1..(Len(DEFAULT_TABS) + 1)

\* No database file yet: init_db creates the two tables, empty.
NoStore == [tabs |-> {}, watchlist |-> {}, tabs_seq |-> 0, watchlist_seq |-> 0]

\* The store an earlier run of the program left on disk: none (first run),
\* or the seeded store after the user deleted the default tabs AA and
\* US Sectors (DELETE /api/tabs/3 and DELETE /api/tabs/4 in that run).
EarlierRuns ==
   LET seeded == init_db(NoStore, 0)
   IN { NoStore,
        [seeded EXCEPT !.tabs = { t \in seeded.tabs : t.id \in {1, 2} },
                       !.watchlist = { w \in seeded.watchlist : w.tab_id \in {1, 2} }] }

Init ==
   /\ \E db \in EarlierRuns :
         /\ tabs = db.tabs
         /\ watchlist = db.watchlist
         /\ tabs_seq = db.tabs_seq
         /\ watchlist_seq = db.watchlist_seq
   /\ now = 0
   /\ up = FALSE
   /\ last = Call("none", 0, <<>>, FALSE, <<>>)
   /\ resp = 0
   /\ calls = 0
   /\ conns = NoConns
   /\ pool = NoPool
   /\ quote = NoQuote

\* app.py 25: init_db() runs when the process imports the application.
Start ==
   /\ ~up
   /\ calls < MaxCalls
   /\ LET db == init_db([tabs |-> tabs, watchlist |-> watchlist,
                          tabs_seq |-> tabs_seq, watchlist_seq |-> watchlist_seq], now)
      IN /\ tabs' = db.tabs
         /\ watchlist' = db.watchlist
         /\ tabs_seq' = db.tabs_seq
         /\ watchlist_seq' = db.watchlist_seq
   /\ up' = TRUE
   /\ last' = Call("init_db", 0, <<>>, TRUE, <<>>)
   /\ calls' = calls + 1
   /\ UNCHANGED << now, resp >>
   /\ UNCHANGED << conns, pool, quote >>

\* The process exits (the user stops run.py, or uvicorn reloads it).
Stop ==
   /\ up
   /\ up' = FALSE
   /\ UNCHANGED << store, now, last, resp, calls >>
   /\ UNCHANGED << conns, pool, quote >>

\* ---------------------------------------------------------------- tabs
\* ORDER BY sort_order, id
tab_before(a, b) ==
   \/ a.sort_order < b.sort_order
   \/ a.sort_order = b.sort_order /\ a.id < b.id

RECURSIVE sorted_tabs(_)
sorted_tabs(ts) ==
   IF ts = {} THEN <<>>
   ELSE LET m == CHOOSE m \in ts : \A x \in ts \ {m} : tab_before(m, x)
        IN << [id |-> m.id, name |-> m.name, sort_order |-> m.sort_order] >>
              \o sorted_tabs(ts \ {m})

\* SELECT id, name, sort_order FROM tabs ORDER BY sort_order, id
get_tabs == sorted_tabs(tabs)

\* tabs_max_order with a fault: MIN(sort_order) in place of MAX(sort_order).
tabs_min_order(ts) ==
   IF ts = {} THEN 0 ELSE -Max({ -t.sort_order : t \in ts })

\* SELECT COALESCE(MAX(sort_order), 0) FROM tabs
tabs_max_order(ts) ==
   IF ts = {} THEN 0 ELSE Max({t.sort_order : t \in ts})

create_tab(name) ==
   LET max_order == tabs_max_order(tabs)
       row == [id |-> tabs_seq + 1, name |-> strip(name),
               sort_order |-> max_order + 1]
   IN /\ tabs' = tabs \cup {row}
      /\ tabs_seq' = tabs_seq + 1
      /\ last' = Call("create_tab", 0, name, TRUE,
                      << [id |-> row.id, name |-> strip(name),
                          sort_order |-> max_order + 1] >>)
      /\ calls' = calls + 1
      /\ UNCHANGED << watchlist, watchlist_seq >>

\* rename_tab with a fault: UPDATE tabs SET name = ? without the WHERE.
rename_tab_every_row(tab_id, new_name) ==
   LET updated == \E t \in tabs : t.id = tab_id
   IN /\ tabs' = { [t EXCEPT !.name = strip(new_name)] : t \in tabs }
      /\ last' = Call("rename_tab", tab_id, new_name, updated, <<>>)
      /\ calls' = calls + 1
      /\ UNCHANGED << watchlist, tabs_seq, watchlist_seq >>

rename_tab(tab_id, new_name) ==
   LET updated == \E t \in tabs : t.id = tab_id
   IN /\ tabs' = { IF t.id = tab_id THEN [t EXCEPT !.name = strip(new_name)] ELSE t
                   : t \in tabs }
      /\ last' = Call("rename_tab", tab_id, new_name, updated, <<>>)
      /\ calls' = calls + 1
      /\ UNCHANGED << watchlist, tabs_seq, watchlist_seq >>

\* last_tab with a fault: the count is not looked at.
last_tab_unchecked(count) == FALSE

\* last_tab with a fault: count < 1 in place of count <= 1.
last_tab_off_by_one(count) == count < 1

\* "Don't delete the last remaining tab": if count <= 1
last_tab(count) == count <= 1

\* on_delete_cascade with a fault: foreign keys are not enforced.
no_cascade(wl, tab_id) == wl

\* FOREIGN KEY (tab_id) REFERENCES tabs(id) ON DELETE CASCADE, with
\* PRAGMA foreign_keys = ON: the rows of a deleted tab go with it.
on_delete_cascade(wl, tab_id) == { w \in wl : w.tab_id # tab_id }

delete_tab(tab_id) ==
   LET count   == Cardinality(tabs)
       deleted == \E t \in tabs : t.id = tab_id
   IN /\ IF last_tab(count)
         THEN /\ UNCHANGED << tabs, watchlist >>
              /\ last' = Call("delete_tab", tab_id, <<>>, FALSE, <<>>)
         ELSE /\ tabs' = { t \in tabs : t.id # tab_id }
              /\ watchlist' = IF deleted THEN on_delete_cascade(watchlist, tab_id)
                              ELSE watchlist
              /\ last' = Call("delete_tab", tab_id, <<>>, deleted, <<>>)
      /\ calls' = calls + 1
      /\ UNCHANGED << tabs_seq, watchlist_seq >>

\* ---------------------------------------------------------------- watchlist
\* ORDER BY sort_order, added_at: rows equal in both come in any order.
entry_before(a, b) ==
   \/ a.sort_order < b.sort_order
   \/ a.sort_order = b.sort_order /\ a.added_at < b.added_at

RECURSIVE listings(_)
listings(rows) ==
   IF rows = {} THEN { <<>> }
   ELSE UNION { { << [id |-> m.id, tab_id |-> m.tab_id, ticker |-> m.ticker,
                      name |-> m.name] >> \o l : l \in listings(rows \ {m}) }
                : m \in { m \in rows : \A x \in rows : ~entry_before(x, m) } }

\* SELECT id, tab_id, ticker, name FROM watchlist WHERE tab_id = ?
\* ORDER BY sort_order, added_at: the set of lists the query may return.
select_watchlist(wl, tab_id) == listings({ w \in wl : w.tab_id = tab_id })

get_watchlist(tab_id) == select_watchlist(watchlist, tab_id)

\* ticker_key with a fault: ticker.upper() without strip().
ticker_key_untrimmed(ticker) == upper(ticker)

\* ticker.upper().strip()
ticker_key(ticker) == strip(upper(ticker))

\* watchlist_max_order with a fault: COUNT(*) - 1 in place of MAX(sort_order).
watchlist_row_count(wl, tab_id) ==
   Cardinality({ w \in wl : w.tab_id = tab_id }) - 1

\* SELECT COALESCE(MAX(sort_order), -1) FROM watchlist WHERE tab_id = ?
watchlist_max_order(wl, tab_id) ==
   IF \E w \in wl : w.tab_id = tab_id
   THEN Max({ w.sort_order : w \in { x \in wl : x.tab_id = tab_id } })
   ELSE -1

\* foreign_key_violation with a fault: get_db without PRAGMA foreign_keys
\* = ON, the reference is not looked at.
foreign_key_unchecked(ts, tab_id) == FALSE

\* FOREIGN KEY (tab_id) REFERENCES tabs(id), with PRAGMA foreign_keys = ON
foreign_key_violation(ts, tab_id) == ~ \E t \in ts : t.id = tab_id

add_ticker(tab_id, ticker, name) ==
   LET max_order == watchlist_max_order(watchlist, tab_id)
       row == [id |-> watchlist_seq + 1, tab_id |-> tab_id,
               ticker |-> ticker_key(ticker), name |-> name,
               sort_order |-> max_order + 1, added_at |-> now]
       IntegrityError ==
          \/ foreign_key_violation(tabs, tab_id)
          \/ unique_violation(watchlist, tab_id, ticker_key(ticker))
   IN /\ IF IntegrityError
         THEN /\ UNCHANGED << watchlist, watchlist_seq >>
              /\ last' = Call("add_ticker", tab_id, ticker, FALSE, <<>>)
         ELSE /\ watchlist' = watchlist \cup {row}
              /\ watchlist_seq' = watchlist_seq + 1
              /\ last' = Call("add_ticker", tab_id, ticker, TRUE, <<>>)
      /\ calls' = calls + 1
      /\ UNCHANGED << tabs, tabs_seq >>

\* row_matches with a fault: WHERE ticker = ?, in every tab.
row_matches_any_tab(w, tab_id, ticker) == w.ticker = ticker

\* WHERE tab_id = ? AND ticker = ?
row_matches(w, tab_id, ticker) == w.tab_id = tab_id /\ w.ticker = ticker

\* for i, ticker in enumerate(tickers): UPDATE watchlist SET sort_order = i ...
RECURSIVE reorder_rows(_, _, _, _)
reorder_rows(wl, tab_id, tickers, i) ==
   IF i >= Len(tickers) THEN wl
   ELSE reorder_rows(
           { IF row_matches(w, tab_id, ticker_key(tickers[i + 1]))
             THEN [w EXCEPT !.sort_order = i] ELSE w : w \in wl },
           tab_id, tickers, i + 1)

reorder_watchlist(tab_id, tickers) ==
   /\ watchlist' = reorder_rows(watchlist, tab_id, tickers, 0)
   /\ last' = Call("reorder_watchlist", tab_id, tickers, TRUE, <<>>)
   /\ calls' = calls + 1
   /\ UNCHANGED << tabs, tabs_seq, watchlist_seq >>

\* remove_ticker with a fault: the ticker is compared as it was sent.
remove_ticker_as_sent(tab_id, ticker) ==
   LET deleted == \E w \in watchlist : row_matches(w, tab_id, ticker)
   IN /\ watchlist' = { w \in watchlist : ~row_matches(w, tab_id, ticker) }
      /\ last' = Call("remove_ticker", tab_id, ticker, deleted, <<>>)
      /\ calls' = calls + 1
      /\ UNCHANGED << tabs, tabs_seq, watchlist_seq >>

remove_ticker(tab_id, ticker) ==
   LET deleted == \E w \in watchlist : row_matches(w, tab_id, ticker_key(ticker))
   IN /\ watchlist' = { w \in watchlist : ~row_matches(w, tab_id, ticker_key(ticker)) }
      /\ last' = Call("remove_ticker", tab_id, ticker, deleted, <<>>)
      /\ calls' = calls + 1
      /\ UNCHANGED << tabs, tabs_seq, watchlist_seq >>

\* ---------------------------------------------------------------- app.py
\* A request reaches a handler only while the process runs.
Serving == up /\ calls < MaxCalls

api_create_tab(name) ==
   /\ create_tab(name)
   /\ resp' = 200

api_rename_tab(tab_id, name) ==
   /\ rename_tab(tab_id, name)
   /\ resp' = IF last'.ret THEN 200 ELSE 404

api_delete_tab(tab_id) ==
   /\ delete_tab(tab_id)
   /\ resp' = IF last'.ret THEN 200 ELSE 400

api_add_to_watchlist(tab_id, ticker, name) ==
   /\ add_ticker(tab_id, upper(ticker), name)
   /\ resp' = IF last'.ret THEN 200 ELSE 409

api_reorder_watchlist(tab_id, tickers) ==
   /\ reorder_watchlist(tab_id, tickers)
   /\ resp' = IF last'.ret THEN 200 ELSE 400

api_remove_from_watchlist(tab_id, ticker) ==
   /\ remove_ticker(tab_id, upper(ticker))
   /\ resp' = IF last'.ret THEN 200 ELSE 404

PostTab ==
   /\ Serving
   /\ \E name \in NameInputs : api_create_tab(name)
   /\ UNCHANGED << now, up >>
   /\ UNCHANGED << conns, pool, quote >>

PutTab ==
   /\ Serving
   /\ \E tab_id \in TabIdInputs, name \in NameInputs : api_rename_tab(tab_id, name)
   /\ UNCHANGED << now, up >>
   /\ UNCHANGED << conns, pool, quote >>

DeleteTab ==
   /\ Serving
   /\ \E tab_id \in TabIdInputs : api_delete_tab(tab_id)
   /\ UNCHANGED << now, up >>
   /\ UNCHANGED << conns, pool, quote >>

PostWatchlist ==
   /\ Serving
   /\ \E tab_id \in TabIdInputs, ticker \in TickerInputs, name \in EntryNameInputs :
         api_add_to_watchlist(tab_id, ticker, name)
   /\ UNCHANGED << now, up >>
   /\ UNCHANGED << conns, pool, quote >>

PutReorder ==
   /\ Serving
   /\ \E tab_id \in TabIdInputs, tickers \in ReorderInputs :
         api_reorder_watchlist(tab_id, tickers)
   /\ UNCHANGED << now, up >>
   /\ UNCHANGED << conns, pool, quote >>

DeleteWatchlist ==
   /\ Serving
   /\ \E tab_id \in TabIdInputs, ticker \in TickerInputs :
         api_remove_from_watchlist(tab_id, ticker)
   /\ UNCHANGED << now, up >>
   /\ UNCHANGED << conns, pool, quote >>

\* A second passes.
Tick ==
   /\ now < MaxClock
   /\ now' = now + 1
   /\ UNCHANGED << store, up, last, resp, calls >>
   /\ UNCHANGED << conns, pool, quote >>

Next ==
   \/ Start
   \/ Stop
   \/ Tick
   \/ PostTab
   \/ PutTab
   \/ DeleteTab
   \/ PostWatchlist
   \/ PutReorder
   \/ DeleteWatchlist

Spec == Init /\ [][Next]_vars

\* ---------------------------------------------------------------- the store as a library
\* database.py called function by function on the two empty tables that
\* init_db creates (database.py 21-44), without the seeding: the store
\* that the operations of the specification's section 4.1 start from.
InitStore ==
   /\ tabs = NoStore.tabs
   /\ watchlist = NoStore.watchlist
   /\ tabs_seq = NoStore.tabs_seq
   /\ watchlist_seq = NoStore.watchlist_seq
   /\ now = 0
   /\ up = FALSE
   /\ last = Call("none", 0, <<>>, FALSE, <<>>)
   /\ resp = 0
   /\ calls = 0
   /\ conns = NoConns
   /\ pool = NoPool
   /\ quote = NoQuote

CallCreateTab ==
   /\ calls < MaxCalls
   /\ \E name \in NameInputs : create_tab(name)
   /\ UNCHANGED << now, up, resp >>
   /\ UNCHANGED << conns, pool, quote >>

CallRenameTab ==
   /\ calls < MaxCalls
   /\ \E tab_id \in TabIdInputs, name \in NameInputs : rename_tab(tab_id, name)
   /\ UNCHANGED << now, up, resp >>
   /\ UNCHANGED << conns, pool, quote >>

CallDeleteTab ==
   /\ calls < MaxCalls
   /\ \E tab_id \in TabIdInputs : delete_tab(tab_id)
   /\ UNCHANGED << now, up, resp >>
   /\ UNCHANGED << conns, pool, quote >>

CallAddTicker ==
   /\ calls < MaxCalls
   /\ \E tab_id \in TabIdInputs, ticker \in TickerInputs, name \in EntryNameInputs :
         add_ticker(tab_id, ticker, name)
   /\ UNCHANGED << now, up, resp >>
   /\ UNCHANGED << conns, pool, quote >>

CallReorderWatchlist ==
   /\ calls < MaxCalls
   /\ \E tab_id \in TabIdInputs, tickers \in ReorderInputs :
         reorder_watchlist(tab_id, tickers)
   /\ UNCHANGED << now, up, resp >>
   /\ UNCHANGED << conns, pool, quote >>

CallRemoveTicker ==
   /\ calls < MaxCalls
   /\ \E tab_id \in TabIdInputs, ticker \in TickerInputs : remove_ticker(tab_id, ticker)
   /\ UNCHANGED << now, up, resp >>
   /\ UNCHANGED << conns, pool, quote >>

NextStore ==
   \/ Tick
   \/ CallCreateTab
   \/ CallRenameTab
   \/ CallDeleteTab
   \/ CallAddTicker
   \/ CallReorderWatchlist
   \/ CallRemoveTicker

SpecStore == InitStore /\ [][NextStore]_vars

\* ---------------------------------------------------------------- properties
\* This step ran the store operation op.
Ran(op) == calls' = calls + 1 /\ last'.op = op

TabIds == { t.id : t \in tabs }

RowsOf(wl, tab_id) == { w \in wl : w.tab_id = tab_id }

\* Index of the entry of a ticker in a list returned by get_watchlist.
Pos(l, ticker) == CHOOSE i \in 1..Len(l) : l[i].ticker = ticker

\* C1: once init_db has run, the store holds at least one tab, whatever
\* requests were handled and in whatever order.
C1_AtLeastOneTab == calls > 0 => Cardinality(tabs) >= 1

\* Two tabs existed, DELETE requests for both were handled: the first was
\* served, the second (for the tab that is left) was refused with 400.
C1_Witness ==
   /\ Cardinality(tabs) = 1
   /\ last.op = "delete_tab"
   /\ ~last.ret
   /\ resp = 400
   /\ last.tab_id \in TabIds

\* C2: with exactly one tab in the store, delete_tab returns False for every
\* id and changes neither tabs nor watchlist entries.
C2_LastTabKept ==
   [][ (Ran("delete_tab") /\ Cardinality(tabs) = 1)
       => (~last'.ret /\ tabs' = tabs /\ watchlist' = watchlist) ]_vars

\* delete_tab of an id that is not the remaining tab's was refused.
C2_Witness ==
   /\ Cardinality(tabs) = 1
   /\ last.op = "delete_tab"
   /\ ~last.ret
   /\ last.tab_id \notin TabIds

\* C3: with two or more tabs, delete_tab of an existing tab returns True,
\* removes that tab and exactly the watchlist entries of that tab.
C3_DeleteCascades ==
   [][ (Ran("delete_tab") /\ Cardinality(tabs) >= 2 /\ last'.tab_id \in TabIds)
       => /\ last'.ret
          /\ tabs' = { t \in tabs : t.id # last'.tab_id }
          /\ Cardinality(tabs') = Cardinality(tabs) - 1
          /\ RowsOf(watchlist', last'.tab_id) = {}
          /\ \A t \in TabIdInputs \ {last'.tab_id} :
                RowsOf(watchlist', t) = RowsOf(watchlist, t)
          /\ watchlist' \subseteq watchlist ]_vars

\* The first request to the freshly seeded store deleted one of the four
\* default tabs: its entries went with it, the other three tabs kept theirs.
C3_Witness ==
   /\ last.op = "delete_tab"
   /\ last.ret
   /\ calls = 2
   /\ Cardinality(tabs) = 3
   /\ RowsOf(watchlist, last.tab_id) = {}
   /\ Cardinality(watchlist) < watchlist_seq
   /\ \A t \in TabIds : RowsOf(watchlist, t) # {}

IsUpperCase(s) == \A i \in 1..Len(s) : \A k \in 1..Len(LowerCase) : s[i] # LowerCase[k]

IsTrimmed(s) == s = <<>> \/ (s[1] \notin WhiteSpace /\ s[Len(s)] \notin WhiteSpace)

\* C4: a (tab_id, ticker) pair occurs in at most one watchlist entry, and
\* every stored ticker is uppercase and trimmed.
C4_UniqueUpperTrimmed ==
   /\ \A v, w \in watchlist : (v.tab_id = w.tab_id /\ v.ticker = w.ticker) => v = w
   /\ \A w \in watchlist : IsUpperCase(w.ticker) /\ IsTrimmed(w.ticker)

\* A ticker sent with surrounding blanks was added, and its symbol is now
\* in two tabs.
C4_Witness ==
   /\ last.op = "add_ticker"
   /\ last.ret
   /\ ~IsTrimmed(last.arg)
   /\ \E v, w \in watchlist :
         /\ v.tab_id = last.tab_id
         /\ v.ticker = strip(upper(last.arg))
         /\ w.ticker = v.ticker
         /\ w.tab_id # v.tab_id

\* C5: add_ticker of a ticker whose trimmed, uppercased form is already in
\* the tab returns False and leaves the watchlist as it was.
C5_DuplicateRefused ==
   [][ (/\ Ran("add_ticker")
        /\ \E w \in watchlist :
              w.tab_id = last'.tab_id /\ w.ticker = strip(upper(last'.arg)))
       => (~last'.ret /\ watchlist' = watchlist /\ watchlist_seq' = watchlist_seq) ]_vars

\* A duplicate was refused with 409.
C5_Witness ==
   /\ last.op = "add_ticker"
   /\ ~last.ret
   /\ resp = 409
   /\ \E w \in watchlist : w.tab_id = last.tab_id /\ w.ticker = strip(upper(last.arg))

\* C6: create_tab gives the new tab sort_order max(existing) + 1, or 0 when
\* no tab exists.
C6_CreateTabOrder ==
   [][ Ran("create_tab")
       => last'.out[1].sort_order =
             IF tabs = {} THEN 0 ELSE Max({ t.sort_order : t \in tabs }) + 1 ]_vars

\* C7: get_tabs is sorted by sort_order then id and lists the tabs in
\* creation order; create_tab appends the new tab to the list and leaves
\* the order of the others as it was.
C7_Sorted ==
   /\ Len(get_tabs) = Cardinality(tabs)
   /\ { r.id : r \in { get_tabs[i] : i \in 1..Len(get_tabs) } } = TabIds
   /\ \A i, j \in 1..Len(get_tabs) :
         i < j => /\ \/ get_tabs[i].sort_order < get_tabs[j].sort_order
                     \/ /\ get_tabs[i].sort_order = get_tabs[j].sort_order
                        /\ get_tabs[i].id < get_tabs[j].id
                  /\ get_tabs[i].id < get_tabs[j].id

C7_NewTabLast ==
   Ran("create_tab") => sorted_tabs(tabs') = Append(sorted_tabs(tabs), last'.out[1])

C7_ListTabs == []C7_Sorted /\ [][C7_NewTabLast]_vars

\* A tab was created after another had been deleted, and it is listed last.
C7_Witness ==
   /\ last.op = "create_tab"
   /\ Cardinality(tabs) < tabs_seq
   /\ Len(get_tabs) >= 3
   /\ get_tabs[Len(get_tabs)].id = last.out[1].id

\* The tickers of a reorder list, as stored.
Keys(seq) == { strip(upper(seq[i])) : i \in 1..Len(seq) }

\* The entries of tab_id keep their id, ticker, name and added_at, those of
\* the other tabs are untouched, and no entry appears.
ReorderFrame(tab_id) ==
   /\ { [w EXCEPT !.sort_order = 0] : w \in watchlist' }
         = { [w EXCEPT !.sort_order = 0] : w \in watchlist }
   /\ Cardinality(watchlist') = Cardinality(watchlist)
   /\ \A w \in watchlist : w.tab_id # tab_id => w \in watchlist'

\* C8 as claimed: after reorder_watchlist(T, seq) every list get_watchlist(T)
\* may return has the tickers of seq that T holds in the order of seq.
C8_OrderOfSeq ==
   [][ Ran("reorder_watchlist")
       => LET T   == last'.tab_id
              seq == last'.arg
          IN /\ last'.ret
             /\ ReorderFrame(T)
             /\ \A l \in select_watchlist(watchlist', T) :
                 \A i, j \in 1..Len(seq) :
                   LET a == strip(upper(seq[i]))
                       b == strip(upper(seq[j]))
                   IN (/\ i < j
                       /\ a # b
                       /\ \E w \in RowsOf(watchlist, T) : w.ticker = a
                       /\ \E w \in RowsOf(watchlist, T) : w.ticker = b)
                      => Pos(l, a) < Pos(l, b) ]_vars

\* Index of the last occurrence of a stored ticker in a reorder list.
LastIndex(seq, key) ==
   Max({ i \in 1..Len(seq) : strip(upper(seq[i])) = key })

\* C8 amended: the tickers of seq that T holds are listed in the order of
\* their last occurrences in seq (the order of seq when seq names no ticker
\* twice); tickers T does not hold change nothing, and no tab gains or
\* loses an entry.
C8_OrderOfLastOccurrence ==
   [][ Ran("reorder_watchlist")
       => LET T   == last'.tab_id
              seq == last'.arg
              held == { k \in Keys(seq) : \E w \in RowsOf(watchlist, T) : w.ticker = k }
          IN /\ last'.ret
             /\ ReorderFrame(T)
             /\ \A l \in select_watchlist(watchlist', T) :
                 \A a, b \in held :
                   LastIndex(seq, a) < LastIndex(seq, b) => Pos(l, a) < Pos(l, b) ]_vars

\* A list naming two held tickers and one the tab does not hold was applied
\* to a tab with more entries than the list names.
C8_Witness ==
   /\ last.op = "reorder_watchlist"
   /\ \E i \in 1..Len(last.arg) :
         ~ \E w \in RowsOf(watchlist, last.tab_id) : w.ticker = strip(upper(last.arg[i]))
   /\ Cardinality({ k \in Keys(last.arg) :
                      \E w \in RowsOf(watchlist, last.tab_id) : w.ticker = k }) >= 2
   /\ Cardinality(RowsOf(watchlist, last.tab_id)) > Len(last.arg)

\* C9: a successful add_ticker gives the new entry sort_order max + 1 of the
\* tab's entries (0 for a tab without entries), and every list
\* get_watchlist may return ends with the new entry.
C9_NewTickerLast ==
   [][ (Ran("add_ticker") /\ last'.ret)
       => LET T    == last'.tab_id
              old  == RowsOf(watchlist, T)
              new  == watchlist' \ watchlist
          IN /\ Cardinality(new) = 1
             /\ \A n \in new :
                   /\ n.tab_id = T
                   /\ n.ticker = strip(upper(last'.arg))
                   /\ n.sort_order =
                         IF old = {} THEN 0
                         ELSE Max({ w.sort_order : w \in old }) + 1
                   /\ \A l \in select_watchlist(watchlist', T) :
                         l[Len(l)].id = n.id ]_vars

\* A ticker was added to a tab in which a partial reorder had left two
\* entries with the same sort_order.
C9_Witness ==
   /\ last.op = "add_ticker"
   /\ last.ret
   /\ \E v, w \in RowsOf(watchlist, last.tab_id) :
         v # w /\ v.sort_order = w.sort_order
   /\ \A l \in get_watchlist(last.tab_id) :
         l[Len(l)].ticker = strip(upper(last.arg))

\* <<tab name, ticker>> for every ticker of DEFAULT_WATCHLIST.
DefaultPairs ==
   UNION { { << DEFAULT_WATCHLIST[k].tab, DEFAULT_WATCHLIST[k].tickers[i][1] >>
             : i \in 1..Len(DEFAULT_WATCHLIST[k].tickers) }
           : k \in 1..Len(DEFAULT_WATCHLIST) }

\* C10: init_db on a store without tabs inserts the four default tabs with
\* their tickers, each once; on a store with a tab it inserts nothing.
C10_SeedOnce ==
   [][ Ran("init_db")
       => IF tabs = {}
          THEN /\ Cardinality(tabs') = 4
               /\ { t.name : t \in tabs' } =
                     { <<"M", "a", "i", "n">>, <<"M", "A", "G", "7">>, <<"A", "A">>,
                       <<"U", "S", " ", "S", "e", "c", "t", "o", "r", "s">> }
               /\ { << (CHOOSE t \in tabs' : t.id = w.tab_id).name, w.ticker >>
                    : w \in watchlist' } = DefaultPairs
               /\ Cardinality(watchlist') = Cardinality(DefaultPairs)
          ELSE tabs' = tabs /\ watchlist' = watchlist ]_vars

\* The process started on a store from which default tabs had been deleted.
C10_Witness ==
   /\ last.op = "init_db"
   /\ tabs # {}
   /\ ~ \E t \in tabs : t.name = <<"A", "A">>

\* --------------------------------------------------------- app.py: pages
\* The tab ids a page is asked for: none or 0, a negative one, ids of tabs
\* and ids of no tab.
PageTabInputs == {-1, 0} \cup TabIdInputs

\* tabs[0] with a fault: tabs[-1].
last_listed(l) == l[Len(l)]

\* app.py 50, 53, 108: tabs[0]
first_listed(l) == l[1]

\* app.py 57, 110: [w["ticker"] for w in watchlist]
tickers_of(l) == [i \in 1..Len(l) |-> l[i].ticker]

\* The page a handler renders: the tab it shows and the tickers it hands to
\* get_bulk_quotes (none when the list is empty).
Page(active_tab_id, tickers) ==
   << [active_tab_id |-> active_tab_id, tickers |-> tickers] >>

\* GET /?tab=
dashboard(tab) ==
   LET cur == [tabs |-> tabs, watchlist |-> watchlist,
               tabs_seq |-> tabs_seq, watchlist_seq |-> watchlist_seq]
       db == IF tabs = {} THEN init_db(cur, now) ELSE cur
       tl == sorted_tabs(db.tabs)
       requested == IF tab > 0 THEN tab ELSE first_listed(tl).id
       active_tab == IF \E i \in 1..Len(tl) : tl[i].id = requested
                     THEN tl[CHOOSE i \in 1..Len(tl) : tl[i].id = requested]
                     ELSE first_listed(tl)
   IN /\ tabs' = db.tabs
      /\ watchlist' = db.watchlist
      /\ tabs_seq' = db.tabs_seq
      /\ watchlist_seq' = db.watchlist_seq
      /\ \E wl \in select_watchlist(db.watchlist, active_tab.id) :
            last' = Call("dashboard", tab, <<>>, TRUE,
                         Page(active_tab.id, tickers_of(wl)))
      /\ resp' = 200
      /\ calls' = calls + 1

\* GET /api/quotes?tab_id=
api_quotes(tab_id) ==
   LET resolved == IF tab_id = 0
                   THEN IF get_tabs # <<>> THEN first_listed(get_tabs).id ELSE 0
                   ELSE tab_id
   IN /\ \E wl \in get_watchlist(resolved) :
            last' = Call("api_quotes", tab_id, <<>>, TRUE,
                         Page(resolved, tickers_of(wl)))
      /\ resp' = 200
      /\ calls' = calls + 1
      /\ UNCHANGED store

GetDashboard ==
   /\ Serving
   /\ \E tab \in PageTabInputs : dashboard(tab)
   /\ UNCHANGED << now, up >>
   /\ UNCHANGED << conns, pool, quote >>

GetQuotes ==
   /\ Serving
   /\ \E tab_id \in PageTabInputs : api_quotes(tab_id)
   /\ UNCHANGED << now, up >>
   /\ UNCHANGED << conns, pool, quote >>

NextPages ==
   \/ Start
   \/ Stop
   \/ Tick
   \/ PostTab
   \/ PutTab
   \/ DeleteTab
   \/ PostWatchlist
   \/ PutReorder
   \/ DeleteWatchlist
   \/ GetDashboard
   \/ GetQuotes

SpecPages == Init /\ [][NextPages]_vars

\* The tab listed first: smallest sort_order, then smallest id.
IsFirstTab(tab_id) ==
   \E t \in tabs :
      /\ t.id = tab_id
      /\ \A u \in tabs :
            \/ t.sort_order < u.sort_order
            \/ t.sort_order = u.sort_order /\ t.id <= u.id

\* The page shows the first tab and quotes that tab's tickers, each once,
\* in an order get_watchlist may return.
ShowsFirstTab(page) ==
   /\ IsFirstTab(page.active_tab_id)
   /\ page.active_tab_id = get_tabs[1].id
   /\ { page.tickers[i] : i \in 1..Len(page.tickers) }
         = { w.ticker : w \in RowsOf(watchlist, page.active_tab_id) }
   /\ Len(page.tickers) = Cardinality(RowsOf(watchlist, page.active_tab_id))
   /\ \E wl \in get_watchlist(page.active_tab_id) : page.tickers = tickers_of(wl)

\* C17: GET /api/quotes without tab_id or with tab_id 0, and GET / without
\* tab, with tab 0 or with a positive tab no tab has as id, show the first
\* tab of get_tabs as the store is at the request, and quote exactly the
\* tickers of that tab's watchlist.
C17_DefaultsToFirstTab ==
   [][ /\ (Ran("api_quotes") /\ last'.tab_id = 0) => ShowsFirstTab(last'.out[1])
       /\ (/\ Ran("dashboard")
           /\ \/ last'.tab_id = 0
              \/ last'.tab_id > 0 /\ last'.tab_id \notin TabIds)
          => ShowsFirstTab(last'.out[1]) ]_vars

\* The tab Main was deleted; GET /?tab=1 then showed the tab MAG7 with its
\* eight tickers.
C17_Witness ==
   /\ last.op = "dashboard"
   /\ last.tab_id = 1
   /\ 1 \notin TabIds
   /\ last.out[1].active_tab_id = 2
   /\ Len(last.out[1].tickers) = 8
   /\ Cardinality(tabs) >= 1

\* ------------------------------------------------- statement by statement
\* The store functions one SQL statement at a time.  Each call opens its
\* own connection (get_db); sqlite3 begins a transaction before the first
\* INSERT, UPDATE or DELETE of a connection and conn.commit() ends it, so
\* the rows a connection wrote are its own (db) until it commits, and are
\* lost when the process dies before.  A SELECT outside a transaction reads
\* the committed rows.  val holds what the last statement returned: a
\* count, a maximum, a rowcount, or the loop index of reorder_watchlist.
Conn(op, pc, tab_id, arg, name) ==
   [op |-> op, pc |-> pc, tab_id |-> tab_id, arg |-> arg, name |-> name,
    val |-> 0, dirty |-> FALSE, db |-> NoStore]

\* The requests the handlers accept, each at its first statement.
Requests ==
   { Conn("create_tab", "max", 0, name, "") : name \in NameInputs }
   \cup { Conn("rename_tab", "update", t, name, "")
          : t \in TabIdInputs, name \in NameInputs }
   \cup { Conn("delete_tab", "count", t, <<>>, "") : t \in TabIdInputs }
   \cup UNION { { Conn("add_ticker", "max", t, upper(ticker), name)
                  : t \in TabIdInputs, ticker \in TickerInputs }
                : name \in EntryNameInputs }
   \cup { Conn("reorder_watchlist", "update", t, tickers, "")
          : t \in TabIdInputs, tickers \in ReorderInputs }
   \cup { Conn("remove_ticker", "delete", t, upper(ticker), "")
          : t \in TabIdInputs, ticker \in TickerInputs }

\* The event loop with a fault: create_tab awaits between its SELECT and
\* its INSERT, and the loop enters another handler meanwhile.
event_loop_shared(running) ==
   /\ Cardinality(running) < 2
   /\ \A c \in running : c.op = "create_tab" /\ c.pc = "insert"

\* The handlers are async def and await nothing: the event loop runs one
\* to its end before it enters the next.
event_loop_free(running) == running = {}

Committed ==
   [tabs |-> tabs, watchlist |-> watchlist,
    tabs_seq |-> tabs_seq, watchlist_seq |-> watchlist_seq]

\* The rows the statements of connection c see.
View(c) == IF c.dirty THEN c.db ELSE Committed

\* One connection at a time holds the write lock of the database file.
Writable(c) == \A o \in conns \ {c} : ~o.dirty

\* The status the handler of the store function op gives its result.
status_code(op, ret) ==
   IF ret THEN 200
   ELSE IF op = "rename_tab" \/ op = "remove_ticker" THEN 404
   ELSE IF op = "add_ticker" THEN 409
   ELSE 400

\* A statement of c ran and left c as d.
Ran_statement(c, d) ==
   /\ conns' = (conns \ {c}) \cup {d}
   /\ UNCHANGED << store, last, resp, calls >>

\* A write of c ran: it left the rows db in c's transaction.
Wrote(c, pc, val, db) ==
   /\ Writable(c)
   /\ Ran_statement(c, [c EXCEPT !.pc = pc, !.val = val, !.dirty = TRUE, !.db = db])

\* conn.close() and return: the function returns ret and out, the handler
\* answers.
Return(c, ret, out) ==
   /\ conns' = conns \ {c}
   /\ last' = Call(c.op, c.tab_id, c.arg, ret, out)
   /\ resp' = status_code(c.op, ret)
   /\ calls' = calls + 1

\* conn.commit(), then conn.close() and return.
Commit(c, ret, out) ==
   /\ tabs' = View(c).tabs
   /\ watchlist' = View(c).watchlist
   /\ tabs_seq' = View(c).tabs_seq
   /\ watchlist_seq' = View(c).watchlist_seq
   /\ Return(c, ret, out)

Accept ==
   /\ Serving
   /\ event_loop_free(conns)
   /\ \E c \in Requests : conns' = conns \cup {c}
   /\ UNCHANGED << store, now, up, last, resp, calls, pool, quote >>

StepCreateTab ==
   /\ \E c \in conns :
         /\ c.op = "create_tab"
         /\ \/ /\ c.pc = "max"
               /\ Ran_statement(c, [c EXCEPT !.pc = "insert",
                                             !.val = tabs_max_order(View(c).tabs)])
            \/ /\ c.pc = "insert"
               /\ LET v == View(c)
                      row == [id |-> v.tabs_seq + 1, name |-> strip(c.arg),
                              sort_order |-> c.val + 1]
                  IN Wrote(c, "commit", c.val,
                           [v EXCEPT !.tabs = v.tabs \cup {row},
                                     !.tabs_seq = v.tabs_seq + 1])
            \/ /\ c.pc = "commit"
               /\ Commit(c, TRUE, << [id |-> c.db.tabs_seq, name |-> strip(c.arg),
                                      sort_order |-> c.val + 1] >>)
   /\ UNCHANGED << now, up, pool, quote >>

StepRenameTab ==
   /\ \E c \in conns :
         /\ c.op = "rename_tab"
         /\ \/ /\ c.pc = "update"
               /\ LET v == View(c)
                  IN Wrote(c, "commit",
                           Cardinality({ t \in v.tabs : t.id = c.tab_id }),
                           [v EXCEPT !.tabs =
                               { IF t.id = c.tab_id
                                 THEN [t EXCEPT !.name = strip(c.arg)] ELSE t
                                 : t \in v.tabs }])
            \/ /\ c.pc = "commit"
               /\ Commit(c, c.val > 0, <<>>)
   /\ UNCHANGED << now, up, pool, quote >>

StepDeleteTab ==
   /\ \E c \in conns :
         /\ c.op = "delete_tab"
         /\ \/ /\ c.pc = "count"
               /\ LET count == Cardinality(View(c).tabs)
                  IN IF last_tab(count)
                     THEN UNCHANGED store /\ Return(c, FALSE, <<>>)
                     ELSE Ran_statement(c, [c EXCEPT !.pc = "delete", !.val = count])
            \/ /\ c.pc = "delete"
               /\ LET v == View(c)
                      rowcount == Cardinality({ t \in v.tabs : t.id = c.tab_id })
                  IN Wrote(c, "commit", rowcount,
                           [v EXCEPT !.tabs = { t \in v.tabs : t.id # c.tab_id },
                                     !.watchlist =
                                        IF rowcount > 0
                                        THEN on_delete_cascade(v.watchlist, c.tab_id)
                                        ELSE v.watchlist])
            \/ /\ c.pc = "commit"
               /\ Commit(c, c.val > 0, <<>>)
   /\ UNCHANGED << now, up, pool, quote >>

StepAddTicker ==
   /\ \E c \in conns :
         /\ c.op = "add_ticker"
         /\ \/ /\ c.pc = "max"
               /\ Ran_statement(c, [c EXCEPT !.pc = "insert",
                                             !.val = watchlist_max_order(
                                                        View(c).watchlist, c.tab_id)])
            \/ /\ c.pc = "insert"
               /\ LET v == View(c)
                      row == [id |-> v.watchlist_seq + 1, tab_id |-> c.tab_id,
                              ticker |-> ticker_key(c.arg), name |-> c.name,
                              sort_order |-> c.val + 1, added_at |-> now]
                      IntegrityError ==
                         \/ foreign_key_violation(v.tabs, c.tab_id)
                         \/ unique_violation(v.watchlist, c.tab_id, ticker_key(c.arg))
                  IN IF IntegrityError
                     THEN Writable(c) /\ UNCHANGED store /\ Return(c, FALSE, <<>>)
                     ELSE Wrote(c, "commit", c.val,
                                [v EXCEPT !.watchlist = v.watchlist \cup {row},
                                          !.watchlist_seq = v.watchlist_seq + 1])
            \/ /\ c.pc = "commit"
               /\ Commit(c, TRUE, <<>>)
   /\ UNCHANGED << now, up, pool, quote >>

StepReorderWatchlist ==
   /\ \E c \in conns :
         /\ c.op = "reorder_watchlist"
         /\ \/ /\ c.val < Len(c.arg)
               /\ LET v == View(c)
                  IN Wrote(c, "update", c.val + 1,
                           [v EXCEPT !.watchlist =
                               reorder_rows(v.watchlist, c.tab_id,
                                            SubSeq(c.arg, 1, c.val + 1), c.val)])
            \/ /\ c.val = Len(c.arg)
               /\ Commit(c, TRUE, <<>>)
   /\ UNCHANGED << now, up, pool, quote >>

StepRemoveTicker ==
   /\ \E c \in conns :
         /\ c.op = "remove_ticker"
         /\ \/ /\ c.pc = "delete"
               /\ LET v == View(c)
                      hit == { w \in v.watchlist :
                                  row_matches(w, c.tab_id, ticker_key(c.arg)) }
                  IN Wrote(c, "commit", Cardinality(hit),
                           [v EXCEPT !.watchlist = v.watchlist \ hit])
            \/ /\ c.pc = "commit"
               /\ Commit(c, c.val > 0, <<>>)
   /\ UNCHANGED << now, up, pool, quote >>

\* The process is stopped or reloaded, also in the middle of a handler:
\* its connections go, and SQLite rolls back what they had not committed.
Kill ==
   /\ up
   /\ up' = FALSE
   /\ conns' = NoConns
   /\ UNCHANGED << store, now, last, resp, calls, pool, quote >>

NextTxn ==
   \/ Start
   \/ Kill
   \/ Accept
   \/ StepCreateTab
   \/ StepRenameTab
   \/ StepDeleteTab
   \/ StepAddTicker
   \/ StepReorderWatchlist
   \/ StepRemoveTicker

SpecTxn == Init /\ [][NextTxn]_vars

\* One store function run as a whole by its handler.
WholeOperation ==
   \/ \E name \in NameInputs : api_create_tab(name)
   \/ \E t \in TabIdInputs, name \in NameInputs : api_rename_tab(t, name)
   \/ \E t \in TabIdInputs : api_delete_tab(t)
   \/ \E t \in TabIdInputs, ticker \in TickerInputs, name \in EntryNameInputs :
         api_add_to_watchlist(t, ticker, name)
   \/ \E t \in TabIdInputs, tickers \in ReorderInputs : api_reorder_watchlist(t, tickers)
   \/ \E t \in TabIdInputs, ticker \in TickerInputs : api_remove_from_watchlist(t, ticker)

\* C11: run statement by statement, with the process killed at any point,
\* every step leaves the committed rows and the answers as they are, or is
\* one whole store operation applied to the rows as committed before the
\* step (or the start of the process): no state between two statements of
\* an operation is ever committed, and no check is followed by a write on
\* rows that changed since.
C11_Atomic ==
   [][ \/ UNCHANGED << store, last, resp, calls >>
       \/ Start
       \/ up /\ WholeOperation ]_vars

\* A reorder_watchlist has run its first UPDATE and has two to go: the
\* rows of its transaction differ from the committed ones.
C11_Witness ==
   /\ up
   /\ \E c \in conns :
         /\ c.op = "reorder_watchlist"
         /\ c.val = 1
         /\ Len(c.arg) = 3
         /\ c.dirty
         /\ c.db.watchlist # watchlist
         /\ c.db.tabs = tabs

\* ------------------------------------------------ market_data.py: bulk quotes
\* get_bulk_quotes, a step of a thread at a time.  pool holds the call
\* under way: the tickers, what the provider will give each fetch
\* (outcome), the executor (threads started, its queue of submitted work,
\* the fetches running), the futures done and those the as_completed loop
\* has seen, how many times each fetch was started, and results.
max_workers_default == 8

WorkerInputs == {1, 2, max_workers_default}

BulkTickers == { <<"A", "A", "P", "L">>, <<"b", "o", "g", "u", "s">> }

RECURSIVE SeqsUpTo(_, _)
SeqsUpTo(S, n) ==
   IF n = 0 THEN { <<>> }
   ELSE LET shorter == SeqsUpTo(S, n - 1)
        IN shorter \cup { Append(q, x) : q \in shorter, x \in S }

BulkInputs == SeqsUpTo(BulkTickers, MaxTickers)

\* What get_quote returns: a quote, or None after a provider error or an
\* empty history.
Outcomes == {"quote", "none"}

\* The quote of a ticker, as far as get_bulk_quotes looks at it.
Quote(ticker) == [ticker |-> upper(ticker)]

\* ThreadPoolExecutor with a fault: a thread for every submitted call.
spawn_always(threads, max_workers) == TRUE

\* ThreadPoolExecutor(max_workers=max_workers): submit starts a thread while
\* fewer than max_workers run.
may_spawn(threads, max_workers) == threads < max_workers

\* get_quote with a fault: a provider error is not caught and takes the
\* worker with it.
fetch_returns_quote_only(outcome) == outcome = "quote"

\* get_quote returns for either outcome: the provider's errors are caught
\* in it.
fetch_returns(outcome) == outcome \in Outcomes

\* if data with a fault: every result is stored.
data_any(outcome) == TRUE

\* if data:
data_truthy(outcome) == outcome = "quote"

Idle == << tabs, watchlist, tabs_seq, watchlist_seq, now, up, last, resp, calls,
           conns >>

CallBulkQuotes ==
   /\ pool.state \in {"idle", "returned"}
   /\ \E tickers \in BulkInputs, max_workers \in WorkerInputs :
         \E outcome \in [1..Len(tickers) -> Outcomes] :
            pool' = [NoPool EXCEPT !.state = "running",
                                   !.tickers = tickers,
                                   !.outcome = outcome,
                                   !.max_workers = max_workers,
                                   !.tries = [i \in 1..Len(tickers) |-> 0]]
   /\ UNCHANGED Idle
   /\ UNCHANGED quote

\* futures = {executor.submit(get_quote, t): t for t in tickers}, one
\* submit.
Submit ==
   /\ pool.state = "running"
   /\ pool.submitted < Len(pool.tickers)
   /\ pool' = [pool EXCEPT !.submitted = @ + 1,
                           !.queue = Append(@, pool.submitted + 1),
                           !.threads = IF may_spawn(@, pool.max_workers)
                                       THEN @ + 1 ELSE @]
   /\ UNCHANGED Idle
   /\ UNCHANGED quote

\* A thread without work takes the oldest submitted call and enters
\* get_quote.
WorkerStart ==
   /\ pool.state = "running"
   /\ pool.queue # <<>>
   /\ Cardinality(pool.running) < pool.threads
   /\ LET i == Head(pool.queue)
      IN pool' = [pool EXCEPT !.queue = Tail(@),
                              !.running = @ \cup {i},
                              !.tries[i] = @ + 1]
   /\ UNCHANGED Idle
   /\ UNCHANGED quote

\* get_quote returns in a thread: its future is done.
WorkerFinish ==
   /\ pool.state = "running"
   /\ \E i \in pool.running :
         /\ fetch_returns(pool.outcome[i])
         /\ pool' = [pool EXCEPT !.running = @ \ {i}, !.done = @ \cup {i}]
   /\ UNCHANGED Idle
   /\ UNCHANGED quote

\* for future in as_completed(futures): one round, for a future that is
\* done.
Collect ==
   /\ pool.state = "running"
   /\ pool.submitted = Len(pool.tickers)
   /\ \E i \in pool.done \ pool.collected :
         LET key == upper(pool.tickers[i])
         IN pool' = [pool EXCEPT
                        !.collected = @ \cup {i},
                        !.results =
                           IF data_truthy(pool.outcome[i])
                           THEN [k \in DOMAIN @ \cup {key} |->
                                    IF k = key THEN Quote(pool.tickers[i]) ELSE @[k]]
                           ELSE @]
   /\ UNCHANGED Idle
   /\ UNCHANGED quote

\* The loop has seen every future; the with block ends and results is
\* returned.
ReturnBulk ==
   /\ pool.state = "running"
   /\ pool.submitted = Len(pool.tickers)
   /\ pool.collected = 1..Len(pool.tickers)
   /\ pool' = [pool EXCEPT !.state = "returned"]
   /\ UNCHANGED Idle
   /\ UNCHANGED quote

NextQuotes ==
   \/ CallBulkQuotes
   \/ Submit
   \/ WorkerStart
   \/ WorkerFinish
   \/ Collect
   \/ ReturnBulk

InitQuotes == InitStore

SpecQuotes == InitQuotes /\ [][NextQuotes]_vars

\* The threads are scheduled fairly and every provider call ends.
SpecQuotesFair ==
   /\ SpecQuotes
   /\ WF_vars(Submit)
   /\ WF_vars(WorkerStart)
   /\ WF_vars(WorkerFinish)
   /\ WF_vars(Collect)
   /\ WF_vars(ReturnBulk)

Fetches == 1..Len(pool.tickers)

\* C12: whatever each fetch gives and in whatever order the fetches end,
\* get_bulk_quotes returns (it has no raising path), and the keys of the
\* map it returns are exactly the uppercased tickers of the fetches that
\* gave a quote, each with its quote.
C12_KeysAreSuccesses ==
   pool.state = "returned"
      => /\ DOMAIN pool.results
               = { upper(pool.tickers[i]) : i \in { j \in Fetches : pool.outcome[j] = "quote" } }
         /\ \A k \in DOMAIN pool.results : pool.results[k].ticker = k
         /\ \A i \in Fetches :
               (\A j \in Fetches : upper(pool.tickers[j]) = upper(pool.tickers[i])
                                      => pool.outcome[j] = "none")
                  => upper(pool.tickers[i]) \notin DOMAIN pool.results

\* get_bulk_quotes(["bogus", "AAPL", ...]) returned: a fetch failed, the
\* fetch of a lowercase ticker gave a quote, and the ticker of the failed
\* one is not a key.
C12_Witness ==
   /\ pool.state = "returned"
   /\ Len(pool.tickers) = MaxTickers
   /\ \E i, j \in Fetches :
         /\ pool.outcome[i] = "none"
         /\ upper(pool.tickers[i]) \notin DOMAIN pool.results
         /\ pool.outcome[j] = "quote"
         /\ pool.tickers[j] # upper(pool.tickers[j])
         /\ upper(pool.tickers[j]) \in DOMAIN pool.results

\* C13: no more than max_workers fetches run at a time, no fetch is
\* started twice, and when get_bulk_quotes returns every fetch was started
\* once.
C13_CapAndOnce ==
   /\ Cardinality(pool.running) <= pool.max_workers
   /\ \A i \in Fetches : pool.tries[i] <= 1
   /\ pool.state = "returned" => \A i \in Fetches : pool.tries[i] = 1

\* The one worker is busy, a ticker waits in the queue, and the fetch
\* that failed before is done, started once.
C13_Witness ==
   /\ pool.state = "running"
   /\ pool.max_workers = 1
   /\ Cardinality(pool.running) = 1
   /\ pool.queue # <<>>
   /\ \E i \in pool.done : pool.outcome[i] = "none" /\ pool.tries[i] = 1

\* C14: under fair scheduling, with every provider call ending, a
\* get_bulk_quotes call returns, every fetch started and done, whichever
\* fetches fail.
C14_Returns ==
   (pool.state = "running")
      ~> (/\ pool.state = "returned"
          /\ pool.done = Fetches
          /\ \A i \in Fetches : pool.tries[i] = 1)

\* More tickers than workers: the fetches that took the workers first
\* failed, a later one gave its quote, and the call returned with it.
C14_Witness ==
   /\ pool.state = "returned"
   /\ Len(pool.tickers) > pool.max_workers
   /\ \A i \in 1..pool.max_workers : pool.outcome[i] = "none"
   /\ pool.outcome[Len(pool.tickers)] = "quote"
   /\ upper(pool.tickers[Len(pool.tickers)]) \in DOMAIN pool.results
   /\ pool.done = Fetches

\* ------------------------------------------------ market_data.py: get_quote
\* get_quote on what the provider gives.  Prices are counted in
\* thousandths, so that rounding to two decimals changes them; the fields
\* of the returned quote are in hundredths.  A value of the provider's
\* info is None, a number, or a string such as "Infinity".
None == [kind |-> "none", v |-> 0]
Num(n) == [kind |-> "num", v |-> n]
Str == [kind |-> "str", v |-> 0]
Inf == [kind |-> "inf", v |-> 0]

\* The closes a bar may show, in thousandths.
CloseInputs == {0, 996, 1004, 1005}

\* t.history(period="5d"): an error of the provider, or the closes of the
\* bars, oldest first.
HistInputs == [error : BOOLEAN, closes : SeqsUpTo(CloseInputs, MaxBars)]

\* t.info: an error of the provider, or preMarketPrice, postMarketPrice
\* and trailingPE.
InfoInputs ==
   [error           : BOOLEAN,
    preMarketPrice  : {None, Num(0), Num(1015), Str},
    postMarketPrice : {None, Num(0), Num(990)},
    trailingPE      : {None, Num(15250), Str}]

\* The integers nearest to n / d (d > 0): both neighbours when n / d is
\* half-way, where the binary value of the float decides.
RoundDiv(n, d) ==
   LET q == n \div d
       r == n - q * d
   IN IF 2 * r < d THEN {q}
      ELSE IF 2 * r > d THEN {q + 1}
      ELSE {q, q + 1}

\* round(x, 2) of x thousandths, in hundredths.
round2(x) == RoundDiv(x, 10)

\* round((a / b) * 100, 2), in hundredths of a percent; a division of
\* numpy floats by zero gives inf.
round_pct(a, b) ==
   IF b = 0 THEN {Inf} ELSE { Num(p) : p \in RoundDiv(a * 10000, b) }

\* The try block of the extended hours, for one of the two prices: the
\* fields it sets, or that it raised.
market_fields(price, current_price) ==
   IF price.kind = "none" \/ (price.kind = "num" /\ price.v = 0)
   THEN { [raised |-> FALSE, price |-> None, change |-> None, change_pct |-> None] }
   ELSE IF price.kind = "str"
   THEN { [raised |-> TRUE, price |-> None, change |-> None, change_pct |-> None] }
   ELSE IF price.v > 0
   THEN { [raised |-> FALSE, price |-> Num(p), change |-> Num(c), change_pct |-> pct]
          : p \in round2(price.v),
            c \in round2(price.v - current_price),
            pct \in round_pct(price.v - current_price, current_price) }
   ELSE { [raised |-> FALSE, price |-> None, change |-> None, change_pct |-> None] }

no_fields == [raised |-> FALSE, price |-> None, change |-> None, change_pct |-> None]

\* return None
NoResult ==
   [kind |-> "none", price |-> 0, change |-> 0, change_pct |-> None,
    prev_close |-> 0, pe_ratio |-> None,
    pre_market_price |-> None, pre_market_change |-> None,
    pre_market_change_pct |-> None,
    post_market_price |-> None, post_market_change |-> None,
    post_market_change_pct |-> None]

\* The quotes get_quote may return for a history and an info.
get_quote(history, info) ==
   IF history.error THEN {NoResult}
   ELSE IF history.closes = <<>> THEN {NoResult}
   ELSE
      LET hist == history.closes
          current_price == hist[Len(hist)]
          prev_close == IF Len(hist) >= 2 THEN hist[Len(hist) - 1] ELSE current_price
          change == current_price - prev_close
          change_pct == IF prev_close # 0
                        THEN round_pct(change, prev_close)
                        ELSE {Num(0)}
          pe_ratio == IF info.error THEN None ELSE info.trailingPE
          pre_market == IF info.error THEN {no_fields}
                        ELSE market_fields(info.preMarketPrice, current_price)
          post_market(pre) == IF info.error \/ pre.raised THEN {no_fields}
                              ELSE market_fields(info.postMarketPrice, current_price)
      IN IF pe_ratio.kind = "str"
         THEN {NoResult}
         ELSE { [kind |-> "dict",
                 price |-> price,
                 change |-> chg,
                 change_pct |-> pct,
                 prev_close |-> prev,
                 pe_ratio |-> IF pe_ratio.kind = "num" /\ pe_ratio.v # 0
                              THEN Num(pe) ELSE None,
                 pre_market_price |-> hours.pre.price,
                 pre_market_change |-> hours.pre.change,
                 pre_market_change_pct |-> hours.pre.change_pct,
                 post_market_price |-> hours.post.price,
                 post_market_change |-> hours.post.change,
                 post_market_change_pct |-> hours.post.change_pct]
                : price \in round2(current_price),
                  chg \in round2(change),
                  pct \in change_pct,
                  prev \in round2(prev_close),
                  pe \in round2(pe_ratio.v),
                  hours \in UNION { { [pre |-> q, post |-> a] : a \in post_market(q) }
                                    : q \in pre_market } }

CallGetQuote ==
   /\ quote.state = "idle"
   /\ \E hist \in HistInputs, info \in InfoInputs :
         quote' = [state |-> "called", hist |-> hist, info |-> info,
                   result |-> NoResult]
   /\ UNCHANGED Idle
   /\ UNCHANGED pool

ReturnQuote ==
   /\ quote.state = "called"
   /\ \E result \in get_quote(quote.hist, quote.info) :
         quote' = [quote EXCEPT !.state = "returned", !.result = result]
   /\ UNCHANGED Idle
   /\ UNCHANGED pool

NextQuote ==
   \/ CallGetQuote
   \/ ReturnQuote

InitQuote == InitStore

SpecQuote == InitQuote /\ [][NextQuote]_vars

\* The market fields of a quote are null.
AllNull(price, change, change_pct) ==
   price.kind = "none" /\ change.kind = "none" /\ change_pct.kind = "none"

\* C18 as claimed, every field read as rounded to two decimals: get_quote
\* returns None for an empty history; for any other history it returns a
\* quote, whatever the enrichment does, with price the last close,
\* prev_close the close before it (the last one when there is one bar),
\* change their difference, change_pct change / prev_close x 100 (0 when
\* prev_close is 0), and the pre- and post-market fields null unless the
\* price of the info is a number above 0.
C18_QuoteFields ==
   quote.state = "returned" /\ ~quote.hist.error
      => LET hist == quote.hist.closes
             r    == quote.result
         IN IF hist = <<>> THEN r.kind = "none"
            ELSE LET close == hist[Len(hist)]
                     prev  == IF Len(hist) >= 2 THEN hist[Len(hist) - 1] ELSE close
                 IN /\ r.kind = "dict"
                    /\ r.price \in round2(close)
                    /\ r.prev_close \in round2(prev)
                    /\ r.change \in round2(close - prev)
                    /\ IF prev = 0 THEN r.change_pct = Num(0)
                       ELSE r.change_pct \in round_pct(close - prev, prev)
                    /\ \/ /\ ~quote.info.error
                           /\ quote.info.preMarketPrice.kind = "num"
                           /\ quote.info.preMarketPrice.v > 0
                       \/ AllNull(r.pre_market_price, r.pre_market_change,
                                  r.pre_market_change_pct)
                    /\ \/ /\ ~quote.info.error
                           /\ quote.info.postMarketPrice.kind = "num"
                           /\ quote.info.postMarketPrice.v > 0
                       \/ AllNull(r.post_market_price, r.post_market_change,
                                  r.post_market_change_pct)

\* C15 as claimed: a request that names a tab or an entry that does not
\* exist is answered 404; 400 answers only the deletion of the last tab and
\* 409 only the addition of a ticker the tab holds.
C15_NotFoundIs404 ==
   [][ (calls' = calls + 1 /\ last'.op # "init_db")
       => /\ (last'.op = "rename_tab" /\ last'.tab_id \notin TabIds) => resp' = 404
          /\ (/\ last'.op = "delete_tab"
              /\ last'.tab_id \notin TabIds
              /\ Cardinality(tabs) >= 2) => resp' = 404
          /\ (last'.op = "add_ticker" /\ last'.tab_id \notin TabIds) => resp' = 404
          /\ (/\ last'.op = "remove_ticker"
              /\ ~ \E w \in RowsOf(watchlist, last'.tab_id) :
                      w.ticker = strip(upper(last'.arg))) => resp' = 404
          /\ resp' = 400 => (last'.op = "delete_tab" /\ Cardinality(tabs) = 1)
          /\ resp' = 409
                => /\ last'.op = "add_ticker"
                   /\ \E w \in RowsOf(watchlist, last'.tab_id) :
                         w.ticker = strip(upper(last'.arg)) ]_vars

\* C16: every tab name is non-empty and has no surrounding whitespace.
C16_NameNonEmptyTrimmed ==
   \A t \in tabs : t.name # <<>> /\ IsTrimmed(t.name)

\* C19: rename_tab of an id no tab has returns False and changes nothing;
\* of an existing tab it returns True and changes that tab's name to the
\* trimmed new name and nothing else: ids, sort_order, the other tabs, the
\* order of get_tabs and the watchlist entries stay.
C19_RenameFrame ==
   [][ Ran("rename_tab")
       => /\ watchlist' = watchlist
          /\ tabs_seq' = tabs_seq
          /\ IF last'.tab_id \notin TabIds
             THEN ~last'.ret /\ tabs' = tabs
             ELSE /\ last'.ret
                  /\ \A t \in tabs :
                        IF t.id = last'.tab_id
                        THEN [t EXCEPT !.name = strip(last'.arg)] \in tabs'
                        ELSE t \in tabs'
                  /\ Cardinality(tabs') = Cardinality(tabs)
                  /\ [i \in 1..Len(sorted_tabs(tabs')) |-> sorted_tabs(tabs')[i].id]
                        = [i \in 1..Len(get_tabs) |-> get_tabs[i].id] ]_vars

\* A tab was renamed with a name sent with a leading blank, and now has
\* the name without it.
C19_Witness ==
   /\ last.op = "rename_tab"
   /\ last.ret
   /\ resp = 200
   /\ strip(last.arg) # last.arg
   /\ \E t \in tabs : t.id = last.tab_id /\ t.name = strip(last.arg) /\ t.name # <<>>
   /\ Cardinality(tabs) >= 2

\* A list of get_watchlist without the entry of id.
Without(l, id) == SelectSeq(l, LAMBDA e : e.id # id)

\* C20: remove_ticker returns False and changes nothing when the tab has no
\* entry for the trimmed, uppercased ticker; else it returns True and
\* removes that entry alone, the lists get_watchlist may return being the
\* former ones without it; add_ticker of a ticker an existing tab does not
\* hold succeeds.
C20_RemoveFrame ==
   [][ /\ Ran("remove_ticker")
          => LET T    == last'.tab_id
                 hit  == { w \in RowsOf(watchlist, T) : w.ticker = strip(upper(last'.arg)) }
             IN /\ tabs' = tabs
                /\ IF hit = {}
                   THEN ~last'.ret /\ watchlist' = watchlist
                   ELSE /\ last'.ret
                        /\ Cardinality(hit) = 1
                        /\ watchlist' = watchlist \ hit
                        /\ \A h \in hit :
                              select_watchlist(watchlist', T)
                                 = { Without(l, h.id) : l \in select_watchlist(watchlist, T) }
       /\ (/\ Ran("add_ticker")
           /\ last'.tab_id \in TabIds
           /\ ~ \E w \in RowsOf(watchlist, last'.tab_id) :
                   w.ticker = strip(upper(last'.arg)))
          => last'.ret ]_vars

\* TLT, seeded in the tab Main, was removed from it and added to it again.
C20_Witness ==
   /\ last.op = "add_ticker"
   /\ last.ret
   /\ last.tab_id = 1
   /\ strip(upper(last.arg)) = <<"T", "L", "T">>
   /\ \E w \in RowsOf(watchlist, 1) :
         w.ticker = <<"T", "L", "T">> /\ w.id > Cardinality(DefaultPairs)
   /\ Cardinality(RowsOf(watchlist, 1)) = 4

\* Every watchlist row is of a tab of the store.
C21_Referenced == \A w \in watchlist : w.tab_id \in TabIds

\* Every id a tab has or had is at most the sqlite_sequence of tabs.
C21_IdsIssued == \A t \in tabs : t.id <= tabs_seq

\* C21: every watchlist row's tab_id is the id of a tab of the store;
\* add_ticker for an id no tab has returns False and adds no row; tab ids
\* are not reused (the sequence of tabs never goes back and a new tab gets
\* an id above it), so a new tab has no row.
C21_ReferentialIntegrity ==
   /\ [](C21_Referenced /\ C21_IdsIssued)
   /\ [][ /\ tabs_seq' >= tabs_seq
          /\ (Ran("add_ticker") /\ last'.tab_id \notin TabIds)
                => /\ ~last'.ret
                   /\ watchlist' = watchlist
          /\ Ran("create_tab")
                => /\ last'.out[1].id > tabs_seq
                   /\ last'.out[1].id \notin TabIds
                   /\ last'.out[1].id \in { t.id : t \in tabs' }
                   /\ RowsOf(watchlist, last'.out[1].id) = {}
                   /\ RowsOf(watchlist', last'.out[1].id) = {} ]_vars

\* The tab Main was deleted in this run; an add_ticker for its id then
\* returned False and its rows are gone.
C21_Witness ==
   /\ last.op = "add_ticker"
   /\ ~last.ret
   /\ last.tab_id = 1
   /\ 1 \notin TabIds
   /\ 1 <= tabs_seq
   /\ RowsOf(watchlist, 1) = {}
   /\ watchlist # {}
   /\ calls = 3

====
